---- MODULE Spec2Model ----
(***************************************************************************)
(* State-machine model of samples/samples.hpp (vttrtp/idlgen): the         *)
(* AsyncProcessor callback loops, Geometry, ShapeProcessor,                *)
(* ImageProcessor, ObjectManager and TaskProcessor, plus the opaque handle *)
(* registry of the C API (samples_c_api.h, whose implementation is not in  *)
(* the source tree and is modelled from the specification).                *)
(*                                                                         *)
(* C++ `int` is 32 bits wide.  TLC's own integers are 32 bits wide too and *)
(* overflow is an evaluation error, so every C++ addition/subtraction that *)
(* can leave the int range is guarded (AddOverflows / SubOverflows) and    *)
(* its wrapped value computed without leaving the range.  Signed overflow  *)
(* and out-of-range double->int conversion are undefined behaviour; the    *)
(* model lets each such event resolve to any outcome in OverflowOutcomes   *)
(* or CastOutcomes.                                                        *)
(***************************************************************************)
EXTENDS Integers, Sequences, FiniteSets, TLC

VARIABLES
    pc,          \* which operation is executing ("idle" between calls)
    args,        \* arguments of the callback-driven operation in progress
    i,           \* loop variable `i` of the operation in progress
    acc,         \* local accumulator: count / sum / processed
    log,         \* callback invocations made by the operation so far
    ret,         \* record of the most recent completed call and its result
    lastCount_,  \* Geometry::lastCount_
    returnedLen, \* length of the vector most recently returned by Geometry
    handles,     \* handle registry: state of every handle value
    frees        \* handle registry: number of times each instance was freed

vars == <<pc, args, i, acc, log, ret, lastCount_, returnedLen, handles, frees>>

-----------------------------------------------------------------------------
(* Bounds of the model *)

\* at most this many callback invocations are followed in one operation
MaxCalls == 3
\* longest vector requested from Geometry
MaxPoints == 3
\* number of handle values the registry can hand out
MaxHandles == 3

-----------------------------------------------------------------------------
(* 32-bit int arithmetic *)

INT_MAX == 2147483647
INT_MIN == -INT_MAX - 1

\* a + b leaves the int range
AddOverflows(a, b) ==
    \/ b > 0 /\ a > INT_MAX - b
    \/ b < 0 /\ a < INT_MIN - b

\* two's-complement result of an overflowing (or not) a + b
WrapAdd(a, b) ==
    IF b > 0 /\ a > INT_MAX - b THEN (a + INT_MIN) + (b + INT_MIN)
    ELSE IF b < 0 /\ a < INT_MIN - b THEN (a - INT_MIN) + (b - INT_MIN)
    ELSE a + b

\* a - b leaves the int range
SubOverflows(a, b) ==
    \/ b < 0 /\ a > INT_MAX + b
    \/ b > 0 /\ a < INT_MIN + b

\* two's-complement result of an overflowing (or not) a - b
WrapSub(a, b) ==
    IF b < 0 /\ a > INT_MAX + b THEN (a + INT_MIN) - (b - INT_MIN)
    ELSE IF b > 0 /\ a < INT_MIN + b THEN (a - INT_MIN) - (b + INT_MIN)
    ELSE a - b

\* What a build may do on signed overflow (undefined behaviour):
\*   "wrap"  two's-complement wrap-around
\*   "trap"  the process aborts (-ftrapv, sanitizers)
OverflowOutcomes == {"wrap", "trap"}

\* What a build may do on a double->int conversion whose value is out of
\* range (undefined behaviour):
\*   "indefinite"  the result is INT_MIN (x86 cvttsd2si)
\*   "saturate"    the result is the nearest int (ARM fcvtzs)
CastOutcomes == {"indefinite", "saturate"}

NoRet == [op |-> "none"]
NoArgs == [op |-> "none"]

-----------------------------------------------------------------------------
(* AsyncProcessor *)

\* inputs
Counts == {INT_MIN, INT_MAX} \cup (-1 .. MaxCalls)
Starts == {INT_MIN, -1, 0, 1, INT_MAX - 1, INT_MAX}
Ends == {INT_MIN, -1, 0, 2, INT_MAX - 1, INT_MAX}
TransformResults == {-1, 2, INT_MAX}

\* loop condition of processWithProgress / processImages: i < count
CountLoopCond_offByOne(iv, count) == iv <= count
CountLoopCond(iv, count) == iv < count

\* loop condition of countFiltered / sumTransformed: i <= end
RangeLoopCond(iv, end) == iv <= end

\* entering a callback-driven operation
Enter(op, a) ==
    /\ pc = "idle"
    /\ pc' = op
    /\ args' = a
    /\ acc' = 0
    /\ log' = <<>>
    /\ ret' = NoRet
    /\ UNCHANGED <<lastCount_, returnedLen, handles, frees>>

\* returning from a callback-driven operation
Return(value) ==
    /\ ret' = [args |-> args, op |-> pc, value |-> value]
    /\ pc' = "idle"
    /\ UNCHANGED <<args, i, acc, log, lastCount_, returnedLen, handles, frees>>

\* the process aborts inside the operation
Abort ==
    /\ pc' = "aborted"
    /\ UNCHANGED <<args, i, acc, ret, lastCount_, returnedLen, handles, frees>>

processWithProgress_call ==
    \E count \in Counts :
        /\ Enter("processWithProgress", [op |-> "processWithProgress", count |-> count])
        /\ i' = 0

\* one iteration: onProgress(i, count); ++i
processWithProgress_iter ==
    /\ pc = "processWithProgress"
    /\ CountLoopCond(i, args.count)
    /\ Len(log) < MaxCalls
    /\ log' = Append(log, [current |-> i, total |-> args.count])
    /\ i' = i + 1
    /\ UNCHANGED <<pc, args, acc, ret, lastCount_, returnedLen, handles, frees>>

processWithProgress_return ==
    /\ pc = "processWithProgress"
    /\ ~CountLoopCond(i, args.count)
    /\ Return(args.count)

countFiltered_call ==
    \E start \in Starts, end \in Ends :
        /\ Enter("countFiltered", [op |-> "countFiltered", end |-> end, start |-> start])
        /\ i' = start

\* one iteration whose ++i stays in range: if (filter(i)) ++count; ++i
countFiltered_iter ==
    /\ pc = "countFiltered"
    /\ RangeLoopCond(i, args.end)
    /\ Len(log) < MaxCalls
    /\ i < INT_MAX
    /\ \E b \in BOOLEAN :
        /\ log' = Append(log, [value |-> i, result |-> b])
        /\ acc' = IF b THEN acc + 1 ELSE acc
    /\ i' = i + 1
    /\ UNCHANGED <<pc, args, ret, lastCount_, returnedLen, handles, frees>>

\* the iteration at i == INT_MAX: ++i overflows (undefined behaviour)
countFiltered_overflow ==
    /\ pc = "countFiltered"
    /\ RangeLoopCond(i, args.end)
    /\ Len(log) < MaxCalls
    /\ i = INT_MAX
    /\ \E b \in BOOLEAN, ub \in OverflowOutcomes :
        /\ log' = Append(log, [value |-> i, result |-> b])
        /\ IF ub = "trap"
             THEN Abort
             ELSE /\ acc' = IF b THEN acc + 1 ELSE acc
                  /\ i' = INT_MIN
                  /\ UNCHANGED <<pc, args, ret, lastCount_, returnedLen, handles, frees>>

countFiltered_return ==
    /\ pc = "countFiltered"
    /\ ~RangeLoopCond(i, args.end)
    /\ Return(acc)

sumTransformed_call ==
    \E start \in Starts, end \in Ends :
        /\ Enter("sumTransformed", [op |-> "sumTransformed", end |-> end, start |-> start])
        /\ i' = start

\* one iteration without overflow: sum += transform(i); ++i
sumTransformed_iter ==
    /\ pc = "sumTransformed"
    /\ RangeLoopCond(i, args.end)
    /\ Len(log) < MaxCalls
    /\ i < INT_MAX
    /\ \E r \in TransformResults :
        /\ ~AddOverflows(acc, r)
        /\ log' = Append(log, [value |-> i, result |-> r])
        /\ acc' = acc + r
    /\ i' = i + 1
    /\ UNCHANGED <<pc, args, ret, lastCount_, returnedLen, handles, frees>>

\* an iteration in which sum += transform(i) or ++i overflows
\* (undefined behaviour)
sumTransformed_overflow ==
    /\ pc = "sumTransformed"
    /\ RangeLoopCond(i, args.end)
    /\ Len(log) < MaxCalls
    /\ \E r \in TransformResults, ub \in OverflowOutcomes :
        /\ AddOverflows(acc, r) \/ i = INT_MAX
        /\ log' = Append(log, [value |-> i, result |-> r])
        /\ IF ub = "trap"
             THEN Abort
             ELSE /\ acc' = WrapAdd(acc, r)
                  /\ i' = WrapAdd(i, 1)
                  /\ UNCHANGED <<pc, args, ret, lastCount_, returnedLen, handles, frees>>

sumTransformed_return ==
    /\ pc = "sumTransformed"
    /\ ~RangeLoopCond(i, args.end)
    /\ Return(acc)

-----------------------------------------------------------------------------
(* ImageProcessor::processImages *)

processImages_call ==
    \E count \in Counts :
        /\ Enter("processImages", [op |-> "processImages", count |-> count])
        /\ i' = 0

\* one iteration: ImageData img{100 + i, 100 + i, 3}; if (callback(img))
\* ++processed; ++i.  (100 + i stays in range for every i the model follows.)
processImages_iter ==
    /\ pc = "processImages"
    /\ CountLoopCond(i, args.count)
    /\ Len(log) < MaxCalls
    /\ \E b \in BOOLEAN :
        /\ log' = Append(log, [result |-> b,
                               img |-> [width |-> 100 + i, height |-> 100 + i,
                                        channels |-> 3]])
        /\ acc' = IF b THEN acc + 1 ELSE acc
    /\ i' = i + 1
    /\ UNCHANGED <<pc, args, ret, lastCount_, returnedLen, handles, frees>>

processImages_return ==
    /\ pc = "processImages"
    /\ ~CountLoopCond(i, args.count)
    /\ Return(acc)

-----------------------------------------------------------------------------
(* Calls that run to completion without calling back *)

\* a call made while no operation is in progress completes with record r
Completes(r) ==
    /\ pc = "idle"
    /\ pc' = "idle"
    /\ ret' = r
    /\ args' = NoArgs
    /\ i' = 0
    /\ acc' = 0
    /\ log' = <<>>

\* a call made while no operation is in progress aborts the process
Aborts(r) ==
    /\ pc = "idle"
    /\ pc' = "aborted"
    /\ ret' = r
    /\ args' = NoArgs
    /\ i' = 0
    /\ acc' = 0
    /\ log' = <<>>

\* a double is modelled as an exact fraction
Frac(n, d) == [num |-> n, den |-> d]

-----------------------------------------------------------------------------
(* Geometry *)

\* inputs
XCoords == {INT_MIN, -3, 10, INT_MAX}
YCoords == {0, 7}
NumPoints == {INT_MIN, -1} \cup (0 .. MaxPoints)

\* the conversion static_cast<int>(v) of a double v outside the int range;
\* high tells on which side of the range v lies
CastOutOfRange(high, cast) ==
    IF cast = "saturate" /\ high THEN INT_MAX ELSE INT_MIN

\* static_cast<int>(a + t * (b - a)) with t = k / (n - 1), for point k of n.
\* The int subtraction b - a wraps when it overflows (the trapping build is
\* handled by LineAborts).  t is exactly 0.0 for k = 0 (and for n = 1) and
\* exactly 1.0 for k = n - 1; in between the product is taken as the exact
\* rational k * d / (n - 1), truncated toward zero by the conversion.
LineCoord(a, b, k, n, cast) ==
    LET d == WrapSub(b, a) IN
    IF k = 0 THEN a
    ELSE IF k = n - 1 THEN
        IF AddOverflows(a, d) THEN CastOutOfRange(d > 0, cast) ELSE a + d
    ELSE
        LET m == n - 1
            qd == d \div m
            rd == d % m
            f == k * qd + ((k * rd) \div m)     \* floor(k * d / m)
            fr == ((k * rd) % m) # 0            \* k * d / m has a fraction
        IN  IF AddOverflows(a, f)
              THEN IF fr /\ f < 0 /\ a = INT_MIN + (-1 - f)
                     THEN INT_MIN               \* INT_MIN - 1 + fraction
                     ELSE CastOutOfRange(f > 0, cast)
              ELSE IF fr /\ a + f < 0 THEN a + f + 1 ELSE a + f

\* b - a overflows on a build that traps
LineAborts(a, b, ub) == SubOverflows(b, a) /\ ub = "trap"

createLine_keepsCount(x1, y1, x2, y2, numPoints, ub, cast) ==
    IF numPoints <= 0 THEN
        [status |-> "ok", points |-> <<>>, lastCount |-> lastCount_]
    ELSE IF LineAborts(x1, x2, ub) \/ LineAborts(y1, y2, ub) THEN
        [status |-> "abort", points |-> <<>>, lastCount |-> lastCount_]
    ELSE
        LET points == [k \in 1 .. numPoints |->
                        [x |-> LineCoord(x1, x2, k - 1, numPoints, cast),
                         y |-> LineCoord(y1, y2, k - 1, numPoints, cast)]]
        IN  [status |-> "ok", points |-> points, lastCount |-> Len(points)]

\* Geometry::createLine: the returned vector and the new lastCount_
createLine(x1, y1, x2, y2, numPoints, ub, cast) ==
    IF numPoints <= 0 THEN
        [status |-> "ok", points |-> <<>>, lastCount |-> 0]
    ELSE IF LineAborts(x1, x2, ub) \/ LineAborts(y1, y2, ub) THEN
        [status |-> "abort", points |-> <<>>, lastCount |-> lastCount_]
    ELSE
        LET points == [k \in 1 .. numPoints |->
                        [x |-> LineCoord(x1, x2, k - 1, numPoints, cast),
                         y |-> LineCoord(y1, y2, k - 1, numPoints, cast)]]
        IN  [status |-> "ok", points |-> points, lastCount |-> Len(points)]

\* Geometry::findBoundingBoxes: the returned vector and the new lastCount_.
\* confidence 0.9 - i * 0.1 is kept as the fraction (9 - i) / 10.
findBoundingBoxes(count) ==
    IF count <= 0 THEN
        [lastCount |-> 0, boxes |-> <<>>]
    ELSE
        LET boxes == [k \in 1 .. count |->
                        [width |-> 50 + (k - 1), height |-> 50 + (k - 1),
                         x |-> (k - 1) * 10, y |-> (k - 1) * 10,
                         confidence |-> Frac(9 - (k - 1), 10)]]
        IN  [lastCount |-> Len(boxes), boxes |-> boxes]

Geometry_createLine ==
    \E x1 \in XCoords, y1 \in YCoords, x2 \in XCoords, y2 \in YCoords,
       numPoints \in NumPoints, ub \in OverflowOutcomes, cast \in CastOutcomes :
        LET r == createLine(x1, y1, x2, y2, numPoints, ub, cast)
            a == [x1 |-> x1, y1 |-> y1, x2 |-> x2, y2 |-> y2, numPoints |-> numPoints]
        IN  IF r.status = "abort"
              THEN /\ Aborts([args |-> a, op |-> "createLine"])
                   /\ UNCHANGED <<lastCount_, returnedLen, handles, frees>>
              ELSE /\ Completes([args |-> a, op |-> "createLine", points |-> r.points])
                   /\ lastCount_' = r.lastCount
                   /\ returnedLen' = Len(r.points)
                   /\ UNCHANGED <<handles, frees>>

Geometry_findBoundingBoxes ==
    \E count \in NumPoints :
        LET r == findBoundingBoxes(count) IN
        /\ Completes([args |-> [count |-> count], op |-> "findBoundingBoxes",
                      boxes |-> r.boxes])
        /\ lastCount_' = r.lastCount
        /\ returnedLen' = Len(r.boxes)
        /\ UNCHANGED <<handles, frees>>

Geometry_getLastCount ==
    /\ Completes([op |-> "getLastCount", value |-> lastCount_])
    /\ UNCHANGED <<lastCount_, returnedLen, handles, frees>>

-----------------------------------------------------------------------------
(* ShapeProcessor *)

\* inputs
BoxXs == {-2, 0, INT_MAX}
BoxYs == {0, 10}
BoxWidths == {-1, 0, 3, INT_MAX}
BoxHeights == {0, 2}
ShapeBoxes ==
    [width : BoxWidths, height : BoxHeights, x : BoxXs, y : BoxYs,
     confidence : {Frac(9, 10)}]
\* coordinates tried against a box edge at `lo` of extent `ext`
EdgeCoords(lo, ext) ==
    {-3, 1, INT_MAX} \cup {lo}
        \cup (IF AddOverflows(lo, ext) THEN {} ELSE {lo + ext})

boxContainsPoint_closed(box, point, ub) ==
    IF point.x < box.x THEN [value |-> FALSE, status |-> "ok"]
    ELSE IF AddOverflows(box.x, box.width) /\ ub = "trap" THEN [status |-> "abort"]
    ELSE IF ~(point.x <= WrapAdd(box.x, box.width)) THEN [value |-> FALSE, status |-> "ok"]
    ELSE IF point.y < box.y THEN [value |-> FALSE, status |-> "ok"]
    ELSE IF AddOverflows(box.y, box.height) /\ ub = "trap" THEN [status |-> "abort"]
    ELSE [value |-> point.y <= WrapAdd(box.y, box.height), status |-> "ok"]

\* ShapeProcessor::boxContainsPoint, its conjuncts evaluated left to right
boxContainsPoint(box, point, ub) ==
    IF point.x < box.x THEN [value |-> FALSE, status |-> "ok"]
    ELSE IF AddOverflows(box.x, box.width) /\ ub = "trap" THEN [status |-> "abort"]
    ELSE IF ~(point.x < WrapAdd(box.x, box.width)) THEN [value |-> FALSE, status |-> "ok"]
    ELSE IF point.y < box.y THEN [value |-> FALSE, status |-> "ok"]
    ELSE IF AddOverflows(box.y, box.height) /\ ub = "trap" THEN [status |-> "abort"]
    ELSE [value |-> point.y < WrapAdd(box.y, box.height), status |-> "ok"]

ShapeProcessor_boxContainsPoint ==
    \E box \in ShapeBoxes, ub \in OverflowOutcomes :
    \E px \in EdgeCoords(box.x, box.width), py \in EdgeCoords(box.y, box.height) :
        LET point == [x |-> px, y |-> py]
            r == boxContainsPoint(box, point, ub)
            a == [box |-> box, point |-> point]
        IN  /\ IF r.status = "abort"
                 THEN Aborts([args |-> a, op |-> "boxContainsPoint"])
                 ELSE Completes([args |-> a, op |-> "boxContainsPoint",
                                 value |-> r.value])
            /\ UNCHANGED <<lastCount_, returnedLen, handles, frees>>

-----------------------------------------------------------------------------
(* Pointers: a pointer is null or designates an object *)

NULL == [null |-> TRUE]
Ptr(v) == [null |-> FALSE, target |-> v]

\* an outcome of a call taking a pointer: its result and whether the
\* pointer was dereferenced; `mem` is the pointed-to object afterwards
Ok(value, deref, mem) ==
    [value |-> value, status |-> "ok", deref |-> deref, mem |-> mem]
Crash(mem) == [status |-> "abort", deref |-> TRUE, mem |-> mem]

-----------------------------------------------------------------------------
(* ImageProcessor *)

\* inputs
Buffers == {<<>>, <<7>>, <<1, 2>>, <<255, 255, 3>>}
DataPtrs == {NULL} \cup {Ptr(b) : b \in Buffers}
Sizes == {INT_MIN, -1, 0, 1, 2, 3, INT_MAX}
Widths == {INT_MIN, -1, 0, 1, 2}
PixelXs == {-1, 0, 1, 2, INT_MAX}
PixelYs == {-1, 0, 1}
\* what a read past the end of a buffer may yield
GarbageBytes == {0, 255}

RECURSIVE SumBytes(_, _)
\* data[0] + ... + data[n - 1]
SumBytes(data, n) == IF n = 0 THEN 0 ELSE SumBytes(data, n - 1) + data[n]

processRawData_noNullCheck(data, size) ==
    IF data.null THEN {Crash(data)}
    ELSE IF size <= 0 THEN {Ok(0, FALSE, data)}
    ELSE IF size <= Len(data.target) THEN {Ok(SumBytes(data.target, size), TRUE, data)}
    ELSE {Crash(data)}

\* ImageProcessor::processRawData: the set of possible outcomes.  Reading
\* data[i] past the end of the buffer is undefined: the process aborts, or
\* the first byte past the end reads as some garbage value and the rest as 0.
processRawData(data, size) ==
    IF data.null \/ size <= 0 THEN {Ok(0, FALSE, data)}
    ELSE IF size <= Len(data.target) THEN {Ok(SumBytes(data.target, size), TRUE, data)}
    ELSE {Crash(data)} \cup
         {Ok(SumBytes(data.target, Len(data.target)) + g, TRUE, data) : g \in GarbageBytes}

\* ImageProcessor::readPixel: the set of possible outcomes.  y * width + x may
\* overflow and the index may lie outside the buffer: both are undefined.
readPixel(data, width, x, y) ==
    IF data.null \/ width <= 0 THEN {Ok(-1, FALSE, data)}
    ELSE LET idx == WrapAdd(y * width, x) IN
         (IF AddOverflows(y * width, x) THEN {Crash(data)} ELSE {}) \cup
         (IF idx >= 0 /\ idx < Len(data.target)
            THEN {Ok(data.target[idx + 1], TRUE, data)}
            ELSE {Crash(data)} \cup {Ok(g, TRUE, data) : g \in GarbageBytes})

\* inputs
NormBoxes ==
    [width : {-1, 10, INT_MAX}, height : {10, 60}, x : {-5, 0, 100, INT_MAX},
     y : {-1, 0}, confidence : {Frac(9, 10)}]
BoxPtrs == {NULL} \cup {Ptr(b) : b \in NormBoxes}
MaxWidths == {0, 50, INT_MAX}
MaxHeights == {0, 50}

\* if (lo + ext > max) ext = max - lo, on one axis: the new extent on a
\* build where overflow wraps
ClampExtent(lo, ext, max) ==
    IF WrapAdd(lo, ext) > max THEN WrapSub(max, lo) ELSE ext
\* the same statement overflows on a build that traps
ClampAborts(lo, ext, max, ub) ==
    /\ ub = "trap"
    /\ \/ AddOverflows(lo, ext)
       \/ lo + ext > max /\ SubOverflows(max, lo)

\* ImageProcessor::normalizeBox, statement by statement
normalizeBox(box, maxWidth, maxHeight, ub) ==
    IF box.null THEN Ok(FALSE, FALSE, box)
    ELSE
        LET b0 == box.target
            b1 == IF b0.x < 0 THEN [b0 EXCEPT !.x = 0] ELSE b0
            b2 == IF b1.y < 0 THEN [b1 EXCEPT !.y = 0] ELSE b1
            b3 == [b2 EXCEPT !.width = ClampExtent(b2.x, b2.width, maxWidth)]
            b4 == [b3 EXCEPT !.height = ClampExtent(b3.y, b3.height, maxHeight)]
        IN  IF ClampAborts(b2.x, b2.width, maxWidth, ub) THEN Crash(Ptr(b2))
            ELSE IF ClampAborts(b3.y, b3.height, maxHeight, ub) THEN Crash(Ptr(b3))
            ELSE Ok(TRUE, TRUE, Ptr(b4))

\* ImageProcessor::getBoxAspectRatio
getBoxAspectRatio(box) ==
    IF box.null THEN Ok(Frac(0, 1), FALSE, box)
    ELSE IF box.target.height = 0 THEN Ok(Frac(0, 1), TRUE, box)
    ELSE Ok(Frac(box.target.width, box.target.height), TRUE, box)

\* a call through a pointer ends in outcome o
PointerCall(op, a, o) ==
    /\ IF o.status = "abort"
         THEN Aborts([args |-> a, op |-> op, deref |-> o.deref, mem |-> o.mem])
         ELSE Completes([args |-> a, op |-> op, value |-> o.value,
                         deref |-> o.deref, mem |-> o.mem])
    /\ UNCHANGED <<lastCount_, returnedLen, handles, frees>>

ImageProcessor_processRawData ==
    \E data \in DataPtrs, size \in Sizes :
    \E o \in processRawData(data, size) :
        PointerCall("processRawData", [size |-> size, ptr |-> data], o)

ImageProcessor_readPixel ==
    \E data \in DataPtrs, width \in Widths, x \in PixelXs, y \in PixelYs :
    \E o \in readPixel(data, width, x, y) :
        PointerCall("readPixel", [width |-> width, x |-> x, y |-> y, ptr |-> data], o)

ImageProcessor_normalizeBox ==
    \E box \in BoxPtrs, maxWidth \in MaxWidths, maxHeight \in MaxHeights,
       ub \in OverflowOutcomes :
        PointerCall("normalizeBox",
                    [maxWidth |-> maxWidth, maxHeight |-> maxHeight, ptr |-> box],
                    normalizeBox(box, maxWidth, maxHeight, ub))

ImageProcessor_getBoxAspectRatio ==
    \E box \in BoxPtrs :
        PointerCall("getBoxAspectRatio", [ptr |-> box], getBoxAspectRatio(box))

-----------------------------------------------------------------------------
(* Calculator and ObjectManager *)

\* inputs
Operands == {INT_MIN, -1, 0, 2, INT_MAX}
\* a default-constructed Calculator
NewCalculator == [total_ |-> 0]
CalcPtrs == {NULL, Ptr(NewCalculator)}

getVersionMajor == 1
getVersionMinor == 0

\* ObjectManager::useCalculator; calc->add(a, b) is a + b, whose overflow is
\* undefined
useCalculator(calc, a, b, ub) ==
    IF calc.null THEN Ok(0, FALSE, calc)
    ELSE IF AddOverflows(a, b) /\ ub = "trap" THEN Crash(calc)
    ELSE Ok(WrapAdd(a, b), TRUE, calc)

\* ObjectManager::inspectCalculator: major + minor / 10.0
inspectCalculator(calc) ==
    IF calc.null THEN Ok(Frac(0, 1), FALSE, calc)
    ELSE Ok(Frac(10 * getVersionMajor + getVersionMinor, 10), TRUE, calc)

ObjectManager_useCalculator ==
    \E calc \in CalcPtrs, a \in Operands, b \in Operands, ub \in OverflowOutcomes :
        PointerCall("useCalculator", [a |-> a, b |-> b, ptr |-> calc],
                    useCalculator(calc, a, b, ub))

ObjectManager_inspectCalculator ==
    \E calc \in CalcPtrs :
        PointerCall("inspectCalculator", [ptr |-> calc], inspectCalculator(calc))

-----------------------------------------------------------------------------
(* TaskProcessor *)

\* enum Status (samples_c_api.h)
Status_Unknown == 0
Status_Pending == 1
Status_Active == 10
Status_Completed == 20
Status_Failed == 100
DefinedStatus ==
    {Status_Unknown, Status_Pending, Status_Active, Status_Completed, Status_Failed}

\* inputs
StatusInputs == {INT_MIN, INT_MAX} \cup (-3 .. 103)

\* TaskProcessor::statusToString
statusToString(status) ==
    CASE status = Status_Unknown -> "Unknown"
      [] status = Status_Pending -> "Pending"
      [] status = Status_Active -> "Active"
      [] status = Status_Completed -> "Completed"
      [] status = Status_Failed -> "Failed"
      [] OTHER -> "Invalid"

statusFromCode_swapped(code) ==
    CASE code = 0 -> Status_Unknown
      [] code = 1 -> Status_Pending
      [] code = 10 -> Status_Completed
      [] code = 20 -> Status_Active
      [] code = 100 -> Status_Failed
      [] OTHER -> Status_Unknown

\* TaskProcessor::statusFromCode
statusFromCode(code) ==
    CASE code = 0 -> Status_Unknown
      [] code = 1 -> Status_Pending
      [] code = 10 -> Status_Active
      [] code = 20 -> Status_Completed
      [] code = 100 -> Status_Failed
      [] OTHER -> Status_Unknown

TaskProcessor_statusToString ==
    \E status \in StatusInputs :
        /\ Completes([args |-> [status |-> status], op |-> "statusToString",
                      value |-> statusToString(status)])
        /\ UNCHANGED <<lastCount_, returnedLen, handles, frees>>

TaskProcessor_statusFromCode ==
    \E code \in StatusInputs :
        /\ Completes([args |-> [code |-> code], op |-> "statusFromCode",
                      value |-> statusFromCode(code)])
        /\ UNCHANGED <<lastCount_, returnedLen, handles, frees>>

-----------------------------------------------------------------------------
(* Opaque handle registry of the C API: T_create / T_destroy / T_operation.  *)
(* Each handle value is "unused" (never returned by create), "live" or       *)
(* "destroyed"; frees counts how often its instance was released.            *)

NullHandle == 0
HandleIds == 1 .. MaxHandles
\* handle values a caller can hold: null, or one that create returned
Held == {NullHandle} \cup {h \in HandleIds : handles[h] # "unused"}

\* the handle designates a usable instance
Valid(h) == h # NullHandle /\ handles[h] = "live"

destroy_unchecked(h) ==
    IF h = NullHandle
      THEN [handles |-> handles, frees |-> frees, freed |-> FALSE]
      ELSE [handles |-> [handles EXCEPT ![h] = "destroyed"],
            frees |-> [frees EXCEPT ![h] = @ + 1], freed |-> TRUE]

\* T_destroy: releases the instance of a live handle; a no-op on a null or
\* already destroyed handle
destroy(h) ==
    IF ~Valid(h)
      THEN [handles |-> handles, frees |-> frees, freed |-> FALSE]
      ELSE [handles |-> [handles EXCEPT ![h] = "destroyed"],
            frees |-> [frees EXCEPT ![h] = @ + 1], freed |-> TRUE]

\* T_operation, here Calculator_add: the failure sentinel 0 on an invalid
\* handle, without touching the instance
operation(h, a, b) ==
    IF ~Valid(h) THEN [value |-> 0, deref |-> FALSE, failed |-> TRUE]
    ELSE [value |-> WrapAdd(a, b), deref |-> TRUE, failed |-> FALSE]

Handle_create ==
    \E h \in HandleIds :
        /\ handles[h] = "unused"
        /\ \A g \in HandleIds : g < h => handles[g] # "unused"
        /\ Completes([op |-> "create", handle |-> h])
        /\ handles' = [handles EXCEPT ![h] = "live"]
        /\ UNCHANGED <<lastCount_, returnedLen, frees>>

Handle_destroy ==
    \E h \in Held :
        LET r == destroy(h) IN
        /\ Completes([op |-> "destroy", freed |-> r.freed, handle |-> h,
                      wasValid |-> Valid(h)])
        /\ handles' = r.handles
        /\ frees' = r.frees
        /\ UNCHANGED <<lastCount_, returnedLen>>

Handle_operation ==
    \E h \in Held, a \in {-1, 2, INT_MAX}, b \in {0, 3} :
        LET r == operation(h, a, b) IN
        /\ Completes([op |-> "operation", value |-> r.value, deref |-> r.deref,
                      failed |-> r.failed, handle |-> h, wasValid |-> Valid(h)])
        /\ UNCHANGED <<lastCount_, returnedLen, handles, frees>>

-----------------------------------------------------------------------------
(* Specifications *)

Init ==
    /\ pc = "idle"
    /\ args = NoArgs
    /\ i = 0
    /\ acc = 0
    /\ log = <<>>
    /\ ret = NoRet
    /\ lastCount_ = 0
    /\ returnedLen = 0
    /\ handles = [h \in HandleIds |-> "unused"]
    /\ frees = [h \in HandleIds |-> 0]

NextAsync ==
    \/ processWithProgress_call
    \/ processWithProgress_iter
    \/ processWithProgress_return
    \/ countFiltered_call
    \/ countFiltered_iter
    \/ countFiltered_overflow
    \/ countFiltered_return
    \/ sumTransformed_call
    \/ sumTransformed_iter
    \/ sumTransformed_overflow
    \/ sumTransformed_return
    \/ processImages_call
    \/ processImages_iter
    \/ processImages_return

NextGeometry ==
    \/ Geometry_createLine
    \/ Geometry_findBoundingBoxes
    \/ Geometry_getLastCount

NextShape == ShapeProcessor_boxContainsPoint

NextPointers ==
    \/ ImageProcessor_processRawData
    \/ ImageProcessor_readPixel
    \/ ImageProcessor_normalizeBox
    \/ ImageProcessor_getBoxAspectRatio
    \/ ObjectManager_useCalculator
    \/ ObjectManager_inspectCalculator

NextTask ==
    \/ TaskProcessor_statusToString
    \/ TaskProcessor_statusFromCode

NextHandles ==
    \/ Handle_create
    \/ Handle_destroy
    \/ Handle_operation

\* The components are separate objects that share no state, so each is
\* specified and checked on its own.
SpecAsync == Init /\ [][NextAsync]_vars
SpecGeometry == Init /\ [][NextGeometry]_vars
SpecShape == Init /\ [][NextShape]_vars
SpecPointers == Init /\ [][NextPointers]_vars
SpecTask == Init /\ [][NextTask]_vars
SpecHandles == Init /\ [][NextHandles]_vars

-----------------------------------------------------------------------------
(* Properties *)

Max(a, b) == IF a >= b THEN a ELSE b

\* lo + ext > p over the unbounded integers
BelowSum(p, lo, ext) ==
    IF AddOverflows(lo, ext) THEN ext > 0 ELSE p < lo + ext

\* the range [start, end] holds at least n integers, for n >= 1
RangeHolds(start, end, n) ==
    start <= INT_MAX - (n - 1) /\ end >= start + (n - 1)

\* C1: processWithProgress(n, cb) invokes cb exactly max(n, 0) times, the
\* k-th invocation (k = 0, 1, ...) with current == k and total == n, none
\* after the return, and returns n.
C1_ProgressCallback ==
    /\ pc = "processWithProgress" =>
          /\ Len(log) <= Max(args.count, 0)
          /\ \A k \in 1 .. Len(log) :
                log[k] = [current |-> k - 1, total |-> args.count]
    /\ ret.op = "processWithProgress" =>
          /\ Len(log) = Max(ret.args.count, 0)
          /\ \A k \in 1 .. Len(log) :
                log[k] = [current |-> k - 1, total |-> ret.args.count]
          /\ ret.value = ret.args.count

C1_Witness ==
    /\ ret.op = "processWithProgress"
    /\ ret.args.count = MaxCalls
    /\ Len(log) = MaxCalls
    /\ log[MaxCalls] = [current |-> MaxCalls - 1, total |-> MaxCalls]

\* C3: countFiltered(start, end, filter) invokes filter exactly once for each
\* integer of [start, end], in ascending order without skipping, not at all
\* when start > end, and returns the number of invocations that returned true.
C3_FilterOncePerElement ==
    /\ (pc = "countFiltered" \/ ret.op = "countFiltered") =>
          \A k \in 1 .. Len(log) :
              /\ log[k].value >= args.start
              /\ log[k].value <= args.end
              /\ log[k].value - args.start = k - 1
    /\ ret.op = "countFiltered" =>
          /\ IF args.start > args.end
                THEN Len(log) = 0
                ELSE Len(log) - 1 = args.end - args.start
          /\ ret.value = Cardinality({k \in 1 .. Len(log) : log[k].result})

\* C10: given callbacks that return, countFiltered and sumTransformed make at
\* most end - start + 1 callback invocations and then leave the loop, for all
\* int start and end (end == INT_MAX included); processWithProgress and
\* processImages make at most max(n, 0).
C10_BoundedInvocations ==
    /\ pc \in {"countFiltered", "sumTransformed"} =>
          /\ Len(log) = 0 \/ RangeHolds(args.start, args.end, Len(log))
          /\ (Len(log) > 0 /\ ~RangeHolds(args.start, args.end, Len(log) + 1))
                => ~RangeLoopCond(i, args.end)
    /\ pc \in {"processWithProgress", "processImages"} =>
          Len(log) <= Max(args.count, 0)

\* C2: createLine(x1, y1, x2, y2, n) returns n points from (x1, y1) to
\* (x2, y2) when n >= 2, the single point (x1, y1) when n == 1, nothing when
\* n <= 0, and getLastCount equals the length of the returned sequence.
C2_CreateLineEndpoints ==
    (pc = "idle" /\ ret.op = "createLine") =>
        LET a == ret.args
            p == ret.points
            n == a.numPoints
        IN  /\ n >= 2 => /\ Len(p) = n
                         /\ p[1] = [x |-> a.x1, y |-> a.y1]
                         /\ p[n] = [x |-> a.x2, y |-> a.y2]
            /\ n = 1 => p = <<[x |-> a.x1, y |-> a.y1]>>
            /\ n <= 0 => p = <<>>
            /\ lastCount_ = Len(p)

\* C9: getLastCount() equals the number of elements returned by the most
\* recent createLine / findBoundingBoxes call (0 before any call and after a
\* call with a non-positive count), and reading it does not change it.
C9_LastCountTracksResult ==
    /\ lastCount_ = returnedLen
    /\ ret.op = "getLastCount" => ret.value = returnedLen
    /\ (pc = "idle" /\ ret.op = "createLine") =>
          /\ lastCount_ = Len(ret.points)
          /\ ret.args.numPoints <= 0 => lastCount_ = 0
    /\ ret.op = "findBoundingBoxes" =>
          /\ lastCount_ = Len(ret.boxes)
          /\ ret.args.count <= 0 => lastCount_ = 0

C9_Witness ==
    /\ ret.op = "getLastCount"
    /\ ret.value = MaxPoints
    /\ lastCount_ = MaxPoints

\* the half-open test box.x <= point.x < box.x + box.width (and likewise in
\* y) over the unbounded integers
InHalfOpenBox(box, point) ==
    /\ box.x <= point.x
    /\ BelowSum(point.x, box.x, box.width)
    /\ box.y <= point.y
    /\ BelowSum(point.y, box.y, box.height)

\* box.x + box.width and box.y + box.height are representable ints
EdgesRepresentable(box) ==
    ~AddOverflows(box.x, box.width) /\ ~AddOverflows(box.y, box.height)

PointerOps ==
    {"processRawData", "readPixel", "normalizeBox", "getBoxAspectRatio",
     "useCalculator", "inspectCalculator"}

\* C5: every operation taking a pointer returns its sentinel when that
\* pointer is null, whatever the other arguments, without reading or writing
\* through the pointer: processRawData 0, readPixel -1, normalizeBox false,
\* getBoxAspectRatio 0.0, useCalculator 0, inspectCalculator 0.0.
C5_NullPointerSentinel ==
    (ret.op \in PointerOps /\ ret.args.ptr.null) =>
        /\ pc = "idle"
        /\ ~ret.deref
        /\ ret.mem = NULL
        /\ CASE ret.op = "processRawData" -> ret.value = 0
              [] ret.op = "readPixel" -> ret.value = -1
              [] ret.op = "normalizeBox" -> ret.value = FALSE
              [] ret.op = "getBoxAspectRatio" -> ret.value.num = 0
              [] ret.op = "useCalculator" -> ret.value = 0
              [] ret.op = "inspectCalculator" -> ret.value.num = 0

C5_Witness ==
    /\ ret.op = "readPixel"
    /\ ret.args.ptr.null
    /\ ret.args.x = INT_MAX
    /\ ret.args.width > 0
    /\ ret.value = -1

\* lo + ext <= max over the unbounded integers
SumAtMost(lo, ext, max) ==
    IF AddOverflows(lo, ext) THEN ext < 0 ELSE lo + ext <= max

\* C6: normalizeBox(box, maxWidth, maxHeight) either returns false and leaves
\* every field of the box unchanged, or returns true and the box lies within
\* the image bounds: 0 <= x <= maxWidth, 0 <= y <= maxHeight,
\* x + width <= maxWidth, y + height <= maxHeight, confidence unchanged.
C6_NormalizeBoxAllOrNothing ==
    (pc = "idle" /\ ret.op = "normalizeBox") =>
        IF ~ret.value
          THEN ret.mem = ret.args.ptr
          ELSE LET b == ret.mem.target IN
               /\ 0 <= b.x /\ b.x <= ret.args.maxWidth
               /\ 0 <= b.y /\ b.y <= ret.args.maxHeight
               /\ SumAtMost(b.x, b.width, ret.args.maxWidth)
               /\ SumAtMost(b.y, b.height, ret.args.maxHeight)
               /\ b.confidence = ret.args.ptr.target.confidence

\* C7: statusFromCode maps each defined code 0, 1, 10, 20, 100 to its own
\* symbol (code -> symbol -> code round-trips) and every other integer to
\* Status_Unknown; statusToString gives each of the five symbols a distinct
\* name and "Invalid" to any other value.
C7_StatusConversionTotal ==
    /\ ret.op = "statusFromCode" =>
          /\ ret.value \in DefinedStatus
          /\ ret.args.code \in DefinedStatus => ret.value = ret.args.code
          /\ ret.args.code \notin DefinedStatus => ret.value = Status_Unknown
    /\ ret.op = "statusToString" =>
          /\ ret.value = "Invalid" <=> ret.args.status \notin DefinedStatus
          /\ \A t \in DefinedStatus \ {ret.args.status} :
                statusToString(t) # ret.value

C7_Witness ==
    /\ ret.op = "statusFromCode"
    /\ ret.args.code = 10
    /\ ret.value = Status_Active

\* C4: destroying a null or already destroyed handle is a no-op, an operation
\* on such a handle only reports failure, and no instance is freed twice or
\* used after it was freed, whatever the sequence of create / operation /
\* destroy calls.
C4_HandleLifecycleSafe ==
    /\ \A h \in HandleIds :
          /\ frees[h] <= 1
          /\ frees[h] = 1 <=> handles[h] = "destroyed"
    /\ ret.op = "destroy" => (ret.freed <=> ret.wasValid)
    /\ ret.op = "operation" =>
          /\ ret.deref <=> ret.wasValid
          /\ ~ret.wasValid => (ret.failed /\ ret.value = 0)

C4_Witness ==
    /\ ret.op = "destroy"
    /\ ret.handle # NullHandle
    /\ ~ret.wasValid
    /\ frees[ret.handle] = 1

====
